---- MODULE Spec2Model ----
(***************************************************************************)
(* Model of generate_white_noise.py: one call of generate_white_noise,     *)
(* which checks the rate arguments, calls get_signal (boundary extension,  *)
(* linear interpolation, random phases, Hermitian mirroring, inverse DFT)  *)
(* and hands the normalised signal to scipy's wav writer.                  *)
(*                                                                         *)
(* Numbers are exact rationals <<num, den>> (den > 0, lowest terms).       *)
(* Complex numbers are pairs <<re, im>> of rationals.  A phase is 0.0 or   *)
(* the angle atan(4/3), whose cosine and sine are the rationals 3/5 and    *)
(* 4/5: like every float phase other than 0.0 it has a nonzero cosine and  *)
(* a nonzero sine.  The transform lengths are kept to 1, 2 and 4, whose    *)
(* twiddle factors are 1, i, -1, -i, so the inverse DFT is computed        *)
(* exactly.  An argument's value does not tell int from float, so the call *)
(* also records whether nyquist and duration were passed as floats.        *)
(* np.linspace is given a float sample count when nyquist or duration is a *)
(* float, in particular a nyquist derived as sampling_rate/2.0: numpy      *)
(* before 1.18 truncates it, later versions raise TypeError; both outcomes *)
(* are kept.  The rate handed to the wav writer keeps its type as well:    *)
(* the writer packs it as an integer and raises on a float.                *)
(***************************************************************************)
EXTENDS Integers, Sequences, FiniteSets

\* ------------------------------------------------------------ bounds
\* Largest number of control points in freqs / responses.
MaxLen == 2

\* ------------------------------------------------------------ rationals
\* An argument that was not supplied, and the float 0.0/0.0.
None == <<>>
NaN == <<0, 0>>

Abs(i) == IF i < 0 THEN -i ELSE i

RECURSIVE GCD(_, _)
GCD(a, b) == IF b = 0 THEN a ELSE GCD(b, a % b)

\* n/d in lowest terms with a positive denominator (d # 0).
Norm(n, d) ==
    LET s == IF d < 0 THEN -1 ELSE 1
        g == GCD(Abs(n), Abs(d))
    IN  <<(s * n) \div g, (s * d) \div g>>

R(i) == <<i, 1>>
RAdd(a, b) == Norm(a[1] * b[2] + b[1] * a[2], a[2] * b[2])
RSub(a, b) == Norm(a[1] * b[2] - b[1] * a[2], a[2] * b[2])
RMul(a, b) == Norm(a[1] * b[1], a[2] * b[2])
RDiv(a, b) == Norm(a[1] * b[2], a[2] * b[1])
RNeg(a) == <<-a[1], a[2]>>
RAbs(a) == <<Abs(a[1]), a[2]>>
RLt(a, b) == a[1] * b[2] < b[1] * a[2]
RLe(a, b) == a[1] * b[2] <= b[1] * a[2]
\* int(x) for x >= 0, and the ceiling of x.
RTrunc(a) == a[1] \div a[2]
RCeil(a) == -((-a[1]) \div a[2])

RatSeq(s) == [i \in 1..Len(s) |-> R(s[i])]

\* ------------------------------------------------------------ complex
CAdd(a, b) == <<RAdd(a[1], b[1]), RAdd(a[2], b[2])>>
CScale(r, a) == <<RMul(r, a[1]), RMul(r, a[2])>>
\* np.conjugate and np.real
Conjugate(a) == <<a[1], RNeg(a[2])>>
Real(a) == a[1]
\* np.exp(1j*phase) for the phases 0.0 and atan(4/3)
ExpPhase(p) ==
    CASE p = "0" -> <<R(1), R(0)>>
      [] p = "atan(4/3)" -> <<<<3, 5>>, <<4, 5>>>>

\* ------------------------------------------------------------ inputs
\* The names lb_type / ub_type may take: the three policies and one other.
PolicyNames == {"zero", "flat", "linear", "cubic"}
\* Values of the nyquist and sampling_rate arguments (None: not supplied).
\* nyquist and duration come with their Python type: <<value, is a float>>.
NyquistValues == {<<None, FALSE>>, <<R(1), FALSE>>, <<R(2), FALSE>>, <<R(1), TRUE>>}
RateValues == {<<None, FALSE>>, <<R(2), FALSE>>, <<R(3), FALSE>>, <<R(2), TRUE>>}
Durations == {<<1, FALSE>>, <<2, TRUE>>}
\* eps: 1/2 leaves room around a control point, 2 reaches or passes a limit.
EpsValues == {<<1, 2>>, R(2)}
\* Phases that np.random.uniform(0, 2*pi) may return: 0.0 and atan(4/3).
Phases == {"0", "atan(4/3)"}
\* Transform lengths whose twiddle factors are powers of i.
ExactSizes == {1, 2, 4}

\* Control frequencies: below 0, the limits 0 and 2, and 1 between them.
FreqValues == {-1, 0, 1, 2}
RespValues == {0, 1}
SeqsOfLen(S, n) == [1..n -> S]

VARIABLES
    \* arguments of generate_white_noise
    freqs, responses, arg_nyquist, arg_sampling_rate, duration, lb_type, ub_type, eps,
    \* whether nyquist, sampling_rate and duration were passed as Python floats
    nyquist_float, rate_float, duration_float,
    \* locals of generate_white_noise / parameters of get_signal
    nyquist, sampling_rate,
    \* locals of get_signal
    freqs_extended, responses_extended, y, phase, signal_z, signal_t, x_t,
    \* what the wav writer received
    writes, wav_rate, wav_data,
    \* the file at outfile_path: "none", "opened" (created, no complete wav) or "written"
    wav_file,
    \* position in the call, and the exception raised (if any)
    pc, err

args == <<freqs, responses, arg_nyquist, arg_sampling_rate, duration, lb_type, ub_type, eps,
          nyquist_float, rate_float, duration_float>>
rates == <<nyquist, sampling_rate>>
extended == <<freqs_extended, responses_extended>>
spectrum == <<y, phase, signal_z, signal_t, x_t>>
wav == <<writes, wav_rate, wav_data, wav_file>>
vars == <<args, rates, extended, spectrum, wav, pc, err>>

\* ------------------------------------------------------------ helpers
\* Python truthiness of an optional number: None and 0 are false.
Truthy(x) == x # None /\ x # R(0)

\* max(freqs) / min over a non-empty sequence of rationals
RECURSIVE MaxOf(_)
MaxOf(s) ==
    IF Len(s) = 1 THEN s[1]
    ELSE LET m == MaxOf(Tail(s)) IN IF RLt(s[1], m) THEN m ELSE s[1]

RECURSIVE MinOf(_)
MinOf(s) ==
    IF Len(s) = 1 THEN s[1]
    ELSE LET m == MinOf(Tail(s)) IN IF RLt(m, s[1]) THEN m ELSE s[1]

\* np.argmin / np.argmax: the first index holding the extreme value
ArgMin(s) == CHOOSE i \in 1..Len(s) :
                /\ s[i] = MinOf(s)
                /\ \A j \in 1..(i - 1) : s[j] # MinOf(s)

ArgMax(s) == CHOOSE i \in 1..Len(s) :
                /\ s[i] = MaxOf(s)
                /\ \A j \in 1..(i - 1) : s[j] # MaxOf(s)

\* ------------------------------------------------------------ generate_white_noise, rate checks
\* nyquist != sampling_rate/2.0
RatesDisagree(nyq, sr) == nyq # RDiv(sr, R(2))

\* sampling_rate = 2*nyquist
RateFromNyquist(nyq) == RMul(R(2), nyq)

\* Mutant: the division by two forgotten.
NyquistFromRate_Undivided(sr) == sr

\* nyquist = sampling_rate/2.0
NyquistFromRate(sr) == RDiv(sr, R(2))

\* n_samples = duration * nyquist + 1 is a float when duration or nyquist is
\* one; the nyquist that sampling_rate/2.0 yields always is.
SampleCountIsFloat == ~Truthy(arg_nyquist) \/ nyquist_float \/ duration_float

\* The sampling_rate handed to write is the argument as passed, or 2*nyquist,
\* a float when nyquist is one.
RateIsFloat == IF Truthy(arg_sampling_rate) THEN rate_float ELSE nyquist_float

Raise(kind) ==
    /\ pc' = "error"
    /\ err' = kind

CheckRates ==
    /\ pc = "start"
    /\ IF ~Truthy(arg_nyquist) /\ ~Truthy(arg_sampling_rate)
       THEN Raise("ConfigError") /\ UNCHANGED rates
       ELSE IF Truthy(arg_nyquist) /\ Truthy(arg_sampling_rate)
       THEN IF RatesDisagree(arg_nyquist, arg_sampling_rate)
            THEN Raise("ConfigError") /\ UNCHANGED rates
            ELSE /\ nyquist' = arg_nyquist
                 /\ sampling_rate' = arg_sampling_rate
                 /\ pc' = "get_signal"
                 /\ UNCHANGED err
       ELSE IF Truthy(arg_nyquist)
       THEN /\ nyquist' = arg_nyquist
            /\ sampling_rate' = RateFromNyquist(arg_nyquist)
            /\ IF RLt(arg_nyquist, MaxOf(freqs))
               THEN Raise("DomainError")
               ELSE pc' = "get_signal" /\ UNCHANGED err
       ELSE /\ nyquist' = NyquistFromRate(arg_sampling_rate)
            /\ sampling_rate' = arg_sampling_rate
            /\ IF RLt(RDiv(arg_sampling_rate, R(2)), MaxOf(freqs))
               THEN Raise("DomainError")
               ELSE pc' = "get_signal" /\ UNCHANGED err
    /\ UNCHANGED <<args, extended, spectrum, wav>>


\* ------------------------------------------------------------ get_signal, boundary extension
\* The points the low side appends for a known policy: freqs then responses.
LowerFreqs(lb, min_freq, e) ==
    CASE lb = "flat" -> <<R(0)>>
      [] lb = "linear" -> <<R(0)>>
      [] lb = "zero" -> <<RSub(min_freq, e), R(0)>>

LowerResponses(lb, rs, min_freq_idx) ==
    CASE lb = "flat" -> <<rs[min_freq_idx]>>
      [] lb = "linear" -> <<R(0)>>
      [] lb = "zero" -> <<R(0), R(0)>>

UpperFreqs(ub, max_freq, nyq, e) ==
    CASE ub = "flat" -> <<nyq>>
      [] ub = "linear" -> <<nyq>>
      [] ub = "zero" -> <<RAdd(max_freq, e), nyq>>

\* Mutant: flat repeats the last response of the list, which after a low
\* extension is the response of the point just appended.
UpperResponses_Last(ub, rs, max_freq_idx) ==
    CASE ub = "flat" -> <<rs[Len(rs)]>>
      [] ub = "linear" -> <<R(0)>>
      [] ub = "zero" -> <<R(0), R(0)>>

UpperResponses(ub, rs, max_freq_idx) ==
    CASE ub = "flat" -> <<rs[max_freq_idx]>>
      [] ub = "linear" -> <<R(0)>>
      [] ub = "zero" -> <<R(0), R(0)>>

KnownPolicy(p) == p \in {"flat", "linear", "zero"}

\* Mutant: the low side treated as needing extension also when min_freq is 0.
NeedsLower_OrZero(min_freq) == RLe(R(0), min_freq)

\* min_freq < 0, and min_freq > 0: the low side has to be extended
Negative(min_freq) == RLt(min_freq, R(0))
NeedsLower(min_freq) == RLt(R(0), min_freq)

\* Mutant: the highest frequency compared with the sampling rate.
AboveNyquist_OfRate(max_freq, nyq) == RLt(RMul(R(2), nyq), max_freq)

\* max_freq > nyquist, and max_freq < nyquist: the high side has to be extended
AboveNyquist(max_freq, nyq) == RLt(nyq, max_freq)
NeedsUpper(max_freq, nyq) == RLt(max_freq, nyq)

\* lines 40-58: copy the control points, check and extend the low side
ExtendLower ==
    /\ pc = "get_signal"
    /\ LET fe == freqs
           re == responses
           min_freq_idx == ArgMin(fe)
           min_freq == fe[min_freq_idx]
       IN  IF Negative(min_freq)
           THEN Raise("DomainError") /\ UNCHANGED extended
           ELSE IF NeedsLower(min_freq)
           THEN IF KnownPolicy(lb_type)
                THEN /\ freqs_extended' = fe \o LowerFreqs(lb_type, min_freq, eps)
                     /\ responses_extended' = re \o LowerResponses(lb_type, re, min_freq_idx)
                     /\ pc' = "lower_done"
                     /\ UNCHANGED err
                ELSE Raise("InvalidPolicyError") /\ UNCHANGED extended
           ELSE /\ freqs_extended' = fe
                /\ responses_extended' = re
                /\ pc' = "lower_done"
                /\ UNCHANGED err
    /\ UNCHANGED <<args, rates, spectrum, wav>>

\* lines 60-75: check and extend the high side
ExtendUpper ==
    /\ pc = "lower_done"
    /\ LET max_freq_idx == ArgMax(freqs_extended)
           max_freq == freqs_extended[max_freq_idx]
       IN  IF AboveNyquist(max_freq, nyquist)
           THEN Raise("DomainError") /\ UNCHANGED extended
           ELSE IF NeedsUpper(max_freq, nyquist)
           THEN IF KnownPolicy(ub_type)
                THEN /\ freqs_extended' =
                          freqs_extended \o UpperFreqs(ub_type, max_freq, nyquist, eps)
                     /\ responses_extended' =
                          responses_extended
                              \o UpperResponses(ub_type, responses_extended, max_freq_idx)
                     /\ pc' = "extended"
                     /\ UNCHANGED err
                ELSE Raise("InvalidPolicyError") /\ UNCHANGED extended
           ELSE /\ pc' = "extended"
                /\ UNCHANGED <<err, extended>>
    /\ UNCHANGED <<args, rates, spectrum, wav>>

\* ------------------------------------------------------------ get_signal, interpolation
\* interp1d sorts its points by x (np.argsort; stable on these short arrays).
RECURSIVE InsertSorted(_, _)
InsertSorted(sorted, pt) ==
    IF sorted = <<>> THEN <<pt>>
    ELSE IF RLt(pt[1], sorted[1][1]) THEN <<pt>> \o sorted
    ELSE <<sorted[1]>> \o InsertSorted(Tail(sorted), pt)

RECURSIVE SortPoints(_)
SortPoints(pts) ==
    IF pts = <<>> THEN <<>>
    ELSE InsertSorted(SortPoints(SubSeq(pts, 1, Len(pts) - 1)), pts[Len(pts)])

Points(fs, rs) == [i \in 1..Len(fs) |-> <<fs[i], rs[i]>>]

\* freq_func(x) for x within the points' range: numpy.interp on the sorted points
FreqFunc(pts, x) ==
    IF x = pts[Len(pts)][1] THEN pts[Len(pts)][2]
    ELSE LET j == CHOOSE j \in 1..(Len(pts) - 1) :
                      /\ RLe(pts[j][1], x)
                      /\ RLt(x, pts[j + 1][1])
                      /\ \A k \in (j + 1)..(Len(pts) - 1) :
                            ~(RLe(pts[k][1], x) /\ RLt(x, pts[k + 1][1]))
             slope == RDiv(RSub(pts[j + 1][2], pts[j][2]), RSub(pts[j + 1][1], pts[j][1]))
         IN  RAdd(RMul(slope, RSub(x, pts[j][1])), pts[j][2])

\* n_samples = duration * nyquist + 1, as np.linspace takes it (int(n_samples))
NSamples(d, nyq) == RTrunc(RAdd(RMul(R(d), nyq), R(1)))

\* np.linspace(0, nyquist, n)
Linspace(nyq, n) ==
    IF n = 1 THEN <<R(0)>>
    ELSE [k \in 1..n |-> RMul(R(k - 1), RDiv(nyq, R(n - 1)))]

\* a query outside the points' range makes the interpolant raise ValueError
OutOfRange(pts, x_f) ==
    \E k \in 1..Len(x_f) : RLt(x_f[k], pts[1][1]) \/ RLt(pts[Len(pts)][1], x_f[k])

\* lines 78-83: build the interpolant and sample it on the frequency grid
Interpolate ==
    /\ pc = "extended"
    /\ LET pts == SortPoints(Points(freqs_extended, responses_extended))
           n_samples == NSamples(duration, nyquist)
           x_f == Linspace(nyquist, n_samples)
       IN  \* numpy >= 1.18 refuses a float sample count
           \/ /\ SampleCountIsFloat
              /\ Raise("TypeError")
              /\ UNCHANGED y
           \/ IF OutOfRange(pts, x_f)
              THEN Raise("ValueError") /\ UNCHANGED y
              ELSE /\ y' = [k \in 1..n_samples |-> FreqFunc(pts, x_f[k])]
                   /\ pc' = "sampled"
                   /\ UNCHANGED err
    /\ UNCHANGED <<args, rates, extended, phase, signal_z, signal_t, x_t, wav>>


\* ------------------------------------------------------------ get_signal, reconstruction
\* y * np.exp(1j*phase), bin by bin
PositiveBins(ys, ph) == [k \in 1..Len(ys) |-> CScale(ys[k], ExpPhase(ph[k]))]

\* signal_z[-2:0:-1]: the bins strictly between the first and the last, reversed
Interior(z) ==
    IF Len(z) < 3 THEN <<>>
    ELSE [k \in 1..(Len(z) - 2) |-> z[Len(z) - k]]

\* np.concatenate((signal_z, np.conjugate(signal_z[-2:0:-1])))
FullSpectrum(z) == z \o [k \in 1..Len(Interior(z)) |-> Conjugate(Interior(z)[k])]

\* c * exp(2j*pi*j/N) for N in ExactSizes: a turn of c by j*(4/N) quarter turns
Twiddle(c, N, j) ==
    LET q == ((4 \div N) * j) % 4
    IN  CASE q = 0 -> c
          [] q = 1 -> <<RNeg(c[2]), c[1]>>
          [] q = 2 -> <<RNeg(c[1]), RNeg(c[2])>>
          [] q = 3 -> <<c[2], RNeg(c[1])>>

RECURSIVE CSum(_)
CSum(s) == IF s = <<>> THEN <<R(0), R(0)>> ELSE CAdd(s[1], CSum(Tail(s)))

\* scipy.fftpack.ifft: x[t] = (1/N) * sum_k X[k] * exp(2j*pi*k*t/N), t = 0..N-1
Ifft(X) ==
    LET N == Len(X)
    IN  [t \in 1..N |->
            CScale(<<1, N>>, CSum([k \in 1..N |-> Twiddle(X[k], N, (k - 1) * (t - 1))]))]

\* np.arange(0, duration, 1.0/sampling_rate)
Arange(d, sr) == [k \in 1..RCeil(RMul(R(d), sr)) |-> RDiv(R(k - 1), sr)]

\* lines 84-90: random phases, mirrored spectrum, inverse transform, time axis
Synthesize ==
    /\ pc = "sampled"
    /\ \E ph \in [1..Len(y) -> Phases] :
          LET z == FullSpectrum(PositiveBins(y, ph))
              zt == Ifft(z)
          IN  /\ phase' = ph
              /\ signal_z' = z
              /\ signal_t' = [t \in 1..Len(zt) |-> Real(zt[t])]
    /\ x_t' = Arange(duration, sampling_rate)
    /\ pc' = "returned"
    /\ UNCHANGED <<args, rates, extended, y, wav, err>>

\* ------------------------------------------------------------ generate_white_noise, output
\* max(abs(signal))
Peak(sig) == MaxOf([t \in 1..Len(sig) |-> RAbs(sig[t])])

\* 0.8*signal/max(abs(signal)); a zero peak gives 0.0/0.0 in every sample
Rescale(sig) ==
    LET peak == Peak(sig)
    IN  [t \in 1..Len(sig) |->
            IF peak = R(0) THEN NaN ELSE RDiv(RMul(<<4, 5>>, sig[t]), peak)]

\* lines 134-135: rescale and write the wav file.  write opens outfile_path
\* and then packs the rate into the header as an unsigned integer: a float
\* rate raises struct.error there, leaving the file created and incomplete.
WriteWav ==
    /\ pc = "returned"
    /\ writes' = writes + 1
    /\ wav_rate' = sampling_rate
    /\ wav_data' = Rescale(signal_t)
    /\ IF RateIsFloat
       THEN wav_file' = "opened" /\ Raise("StructError")
       ELSE wav_file' = "written" /\ pc' = "done" /\ UNCHANGED err
    /\ UNCHANGED <<args, rates, extended, spectrum>>

\* ------------------------------------------------------------ specification
\* The nyquist a call works with, when its rate arguments are accepted.
EffectiveNyquist(nyq, sr) == IF Truthy(nyq) THEN nyq ELSE NyquistFromRate(sr)

\* Length of the mirrored spectrum for n positive-frequency bins.
MirroredLength(n) == IF n < 3 THEN n ELSE 2 * n - 2

Init ==
    /\ \E n \in 1..MaxLen :
          /\ freqs \in {RatSeq(s) : s \in SeqsOfLen(FreqValues, n)}
          /\ responses \in {RatSeq(s) : s \in SeqsOfLen(RespValues, n)}
    /\ \E nv \in NyquistValues : arg_nyquist = nv[1] /\ nyquist_float = nv[2]
    /\ \E rv \in RateValues : arg_sampling_rate = rv[1] /\ rate_float = rv[2]
    /\ \E dv \in Durations : duration = dv[1] /\ duration_float = dv[2]
    /\ (Truthy(arg_nyquist) \/ Truthy(arg_sampling_rate)) =>
          MirroredLength(NSamples(duration,
              EffectiveNyquist(arg_nyquist, arg_sampling_rate))) \in ExactSizes
    /\ lb_type \in PolicyNames
    /\ ub_type \in PolicyNames
    \* eps is read by the 'zero' policy alone (lines 55 and 72): the calls
    \* without it take a single value
    /\ eps \in IF "zero" \in {lb_type, ub_type} THEN EpsValues ELSE {<<1, 2>>}
    /\ nyquist = None
    /\ sampling_rate = None
    /\ freqs_extended = <<>>
    /\ responses_extended = <<>>
    /\ y = <<>>
    /\ phase = <<>>
    /\ signal_z = <<>>
    /\ signal_t = <<>>
    /\ x_t = <<>>
    /\ writes = 0
    /\ wav_rate = None
    /\ wav_data = <<>>
    /\ wav_file = "none"
    /\ pc = "start"
    /\ err = "none"

Next ==
    \/ CheckRates
    \/ ExtendLower
    \/ ExtendUpper
    \/ Interpolate
    \/ Synthesize
    \/ WriteWav

Spec == Init /\ [][Next]_vars


\* ============================================================ properties
\* Vocabulary of the claims, over the arguments of the call.
Supplied(x) == x # None
NeitherSupplied == ~Supplied(arg_nyquist) /\ ~Supplied(arg_sampling_rate)
BothSupplied == Supplied(arg_nyquist) /\ Supplied(arg_sampling_rate)
ExactlyOneSupplied == Supplied(arg_nyquist) # Supplied(arg_sampling_rate)
Twice(x) == RAdd(x, x)
BothConsistent == BothSupplied /\ Twice(arg_nyquist) = arg_sampling_rate
RatesAccepted == ExactlyOneSupplied \/ BothConsistent
\* The nyquist limit the call works with: the one given, or half the rate given.
Limit == IF Supplied(arg_nyquist) THEN arg_nyquist
         ELSE RDiv(arg_sampling_rate, R(2))
Indices == 1..Len(freqs)
Lowest == CHOOSE f \in {freqs[i] : i \in Indices} : \A i \in Indices : RLe(f, freqs[i])
Highest == CHOOSE f \in {freqs[i] : i \in Indices} : \A i \in Indices : RLe(freqs[i], f)
SomeNegative == \E i \in Indices : freqs[i][1] < 0
SomeAboveLimit == \E i \in Indices : RLt(Limit, freqs[i])
Named(p) == p \in {"zero", "flat", "linear"}
\* nyquist and duration are given as ints, and so is the rate the writer
\* receives: the sample count and the rate are ints.
IntArguments ==
    Supplied(arg_nyquist) /\ ~nyquist_float /\ ~duration_float /\ ~RateIsFloat
Failed == pc = "error"
InGetSignalTail == pc \in {"extended", "sampled", "returned", "done"}

\* C1: with neither rate argument the call fails with a configuration error,
\* with both and nyquist != sampling_rate/2 likewise; with exactly one, the
\* other is derived so that 2*nyquist = sampling_rate for the values handed
\* to get_signal and to the writer.
C1_RateContract ==
    /\ (pc # "start" /\ NeitherSupplied) => (Failed /\ err = "ConfigError")
    /\ (pc # "start" /\ BothSupplied /\ ~BothConsistent) => (Failed /\ err = "ConfigError")
    /\ (pc # "start" /\ ExactlyOneSupplied) =>
          /\ Supplied(arg_nyquist) => nyquist = arg_nyquist
          /\ Supplied(arg_sampling_rate) => sampling_rate = arg_sampling_rate
          /\ Supplied(nyquist) /\ Supplied(sampling_rate)
          /\ Twice(nyquist) = sampling_rate
    /\ (writes > 0 /\ ExactlyOneSupplied) => (wav_rate = sampling_rate /\ Twice(nyquist) = wav_rate)

\* C1 witness: only nyquist was given and the writer received the derived rate.
C1_Witness ==
    /\ pc = "done"
    /\ writes = 1
    /\ Supplied(arg_nyquist) /\ ~Supplied(arg_sampling_rate)
    /\ IntArguments
    /\ wav_rate = Twice(arg_nyquist)

\* C2 (as claimed): whichever way the rate is supplied, a call whose freqs hold
\* a negative value or a value above the effective nyquist ends in a domain
\* error and never produces a signal.
C2_BadFreqsDomainError ==
    (RatesAccepted /\ (SomeNegative \/ SomeAboveLimit)) =>
        /\ pc \in {"start", "get_signal", "lower_done", "error"}
        /\ Failed => err = "DomainError"

\* C2 (amended): such a call always ends in an error before any signal exists;
\* the error is a domain error, except that with both rates supplied, every
\* frequency positive and lb_type not a known policy, the invalid-policy error
\* for lb_type comes first.
C2_BadFreqsError ==
    (RatesAccepted /\ (SomeNegative \/ SomeAboveLimit)) =>
        /\ pc \in {"start", "get_signal", "lower_done", "error"}
        /\ signal_t = <<>> /\ writes = 0
        /\ Failed =>
              err = IF BothSupplied /\ RLt(R(0), Lowest) /\ ~Named(lb_type)
                    THEN "InvalidPolicyError"
                    ELSE "DomainError"

\* C2 witness: both rates given and consistent, a frequency above nyquist, and
\* the domain error raised inside get_signal.
C2_Witness ==
    /\ BothConsistent
    /\ SomeAboveLimit
    /\ Failed /\ err = "DomainError"

\* C3: the writer is invoked at most once and only when every validation has
\* passed (consistent rates, frequencies within [0, nyquist], policy names);
\* a call that ends in an error has not invoked the writer and has produced
\* no output.  Stated of the calls whose policy names are both known, whose
\* sample count is an int and whose signal is not all zero, so that a violation
\* owes nothing to a name that is never examined, to the sample count or to
\* the rescaling.
C3_WriterAfterValidation ==
    (/\ Named(lb_type) /\ Named(ub_type)
     /\ ~SampleCountIsFloat
     /\ \A t \in 1..Len(wav_data) : wav_data[t] # NaN) =>
        /\ writes <= 1
        /\ writes = 1 =>
              /\ RatesAccepted
              /\ ~SomeNegative /\ ~SomeAboveLimit
              /\ Named(lb_type) /\ Named(ub_type)
        /\ Failed => (writes = 0 /\ wav_file = "none")

\* Inputs that are valid apart from the policy names.
OtherwiseValid == RatesAccepted /\ ~SomeNegative /\ ~SomeAboveLimit
ExaminedLower == RLt(R(0), Lowest)
ExaminedUpper == RLt(Highest, Limit)

\* C4 (as claimed): with lb_type or ub_type outside {zero, flat, linear} the
\* call fails with an invalid-policy error for every otherwise valid input,
\* also when min(freqs) = 0 or max(freqs) = nyquist.
C4_UnknownPolicyAlwaysFails ==
    (OtherwiseValid /\ (~Named(lb_type) \/ ~Named(ub_type))) =>
        /\ ~InGetSignalTail
        /\ Failed => err = "InvalidPolicyError"

\* C4 (amended): for otherwise valid input the call fails with an
\* invalid-policy error exactly when lb_type is unknown and min(freqs) > 0, or
\* ub_type is unknown and max(freqs) < nyquist; an unknown name on a side that
\* needs no extension is not examined and raises nothing.
C4_UnknownPolicyWhereExamined ==
    OtherwiseValid =>
        /\ ((ExaminedLower /\ ~Named(lb_type)) \/ (ExaminedUpper /\ ~Named(ub_type))) =>
              /\ ~InGetSignalTail
              /\ Failed => err = "InvalidPolicyError"
        /\ (ExaminedLower /\ ~Named(lb_type)) => pc # "lower_done"
        /\ ~((ExaminedLower /\ ~Named(lb_type)) \/ (ExaminedUpper /\ ~Named(ub_type))) =>
              err # "InvalidPolicyError"

\* C4 witness: an unknown lb_type with min(freqs) = 0 went unnoticed and the
\* call wrote its output.
C4_Witness ==
    /\ OtherwiseValid
    /\ ~Named(lb_type)
    /\ Lowest = R(0)
    /\ IntArguments
    /\ pc = "done"

\* A call whose sample count is an int on every numpy and whose extended
\* frequencies are distinct and within [0, nyquist]: a failure seen on such a
\* call owes nothing to the sample count or to the extension.
PlainCall ==
    /\ IntArguments
    /\ \A i \in 1..Len(freqs_extended) :
          /\ RLe(R(0), freqs_extended[i]) /\ RLe(freqs_extended[i], nyquist)
          /\ \A j \in 1..Len(freqs_extended) :
                i # j => freqs_extended[i] # freqs_extended[j]

\* C5: the reconstructed signal has exactly duration*sampling_rate samples
\* (n = duration*nyquist + 1 bins mirrored to 2n-2), and the time axis has the
\* same length as the signal.
C5_SignalLength ==
    pc \in {"returned", "done"} =>
        /\ R(Len(signal_t)) = RMul(R(duration), sampling_rate)
        /\ Len(signal_z) = 2 * Len(y) - 2
        /\ Len(x_t) = Len(signal_t)

\* The largest absolute sample of a written signal is peak (no sample is NaN).
PeakIs(data, peak) ==
    /\ \A t \in 1..Len(data) : data[t] # NaN /\ RLe(RAbs(data[t]), peak)
    /\ \E t \in 1..Len(data) : RAbs(data[t]) = peak

\* C6: for valid inputs, control points whose responses are all zero included,
\* the signal handed to the writer has max(|sample|) = 0.8.
C6_NormalizedPeak ==
    (writes = 1 /\ PlainCall) => PeakIs(wav_data, <<4, 5>>)

\* The points each side must add, from the arguments alone.
ExpectedLower ==
    IF Lowest = R(0) THEN {<<>>}
    ELSE CASE lb_type = "flat" ->
                {<<<<R(0), responses[i]>>>> : i \in {j \in Indices : freqs[j] = Lowest}}
           [] lb_type = "linear" -> {<<<<R(0), R(0)>>>>}
           [] lb_type = "zero" -> {<<<<RSub(Lowest, eps), R(0)>>, <<R(0), R(0)>>>>}
           [] OTHER -> {}

ExpectedUpper ==
    IF Highest = Limit THEN {<<>>}
    ELSE CASE ub_type = "flat" ->
                {<<<<Limit, responses[i]>>>> : i \in {j \in Indices : freqs[j] = Highest}}
           [] ub_type = "linear" -> {<<<<Limit, R(0)>>>>}
           [] ub_type = "zero" -> {<<<<RAdd(Highest, eps), R(0)>>, <<Limit, R(0)>>>>}
           [] OTHER -> {}

Original == [i \in Indices |-> <<freqs[i], responses[i]>>]
Extended == [i \in 1..Len(freqs_extended) |-> <<freqs_extended[i], responses_extended[i]>>]

\* C7: on each side independently the extender appends exactly the points of
\* its policy (none when the data already reaches the limit; flat repeats the
\* response of the original extreme control point, also after the low side
\* was extended), keeps the original points, and keeps freqs' and responses'
\* of equal length.
C7_ExtensionPoints ==
    /\ Len(freqs_extended) = Len(responses_extended)
    /\ pc = "lower_done" => \E lo \in ExpectedLower : Extended = Original \o lo
    /\ InGetSignalTail =>
          \E lo \in ExpectedLower : \E hi \in ExpectedUpper : Extended = Original \o lo \o hi

\* C7 witness: the low side was extended by the zero policy (two points) and
\* the high side then repeated the response of the highest control point.
C7_Witness ==
    /\ pc = "extended"
    /\ lb_type = "zero" /\ ub_type = "flat"
    /\ Len(freqs) = 2 /\ responses[1] # responses[2]
    /\ Len(freqs_extended) = Len(freqs) + 3

\* C8: for every input that passes validation, any eps > 0, every extended
\* frequency lies in [0, nyquist], the smallest being 0 and the largest nyquist.
C8_ExtendedDomain ==
    InGetSignalTail =>
        /\ \A i \in 1..Len(freqs_extended) :
              RLe(R(0), freqs_extended[i]) /\ RLe(freqs_extended[i], nyquist)
        /\ \E i \in 1..Len(freqs_extended) : freqs_extended[i] = R(0)
        /\ \E i \in 1..Len(freqs_extended) : freqs_extended[i] = nyquist

\* Two of the extended frequencies coincide.
RepeatedFrequency ==
    \E i, j \in 1..Len(freqs_extended) : i # j /\ freqs_extended[i] = freqs_extended[j]

\* C9: when the extended frequencies are not strictly increasing after sorting
\* (some frequency occurs twice), no interpolant is built and nothing is
\* sampled or written: the synthesis fails instead.
C9_RepeatedFrequencyFails ==
    (pc \in {"sampled", "returned", "done"} /\ IntArguments) => ~RepeatedFrequency

\* C10: the full spectrum X of length N built by the reconstructor satisfies
\* X[k] = conj(X[(N-k) mod N]) for all k in 0..N-1, bins 0 and n-1 being real.
C10_ConjugateSymmetric ==
    (pc \in {"returned", "done"} /\ PlainCall) =>
        LET N == Len(signal_z)
        IN  \A k \in 0..(N - 1) :
                signal_z[k + 1] = <<signal_z[((N - k) % N) + 1][1],
                                    RNeg(signal_z[((N - k) % N) + 1][2])>>


====
